---- MODULE Spec2Model ----
(***************************************************************************)
(* povmap: the generate route (POST /api/generate), the history store      *)
(* (localStorage + useHistory hook) and the MapView controller.            *)
(*                                                                         *)
(* JavaScript strings are sequences of one-character strings.  A value    *)
(* that may be undefined is a record [t, s]: t = "undefined" or "string". *)
(***************************************************************************)
EXTENDS Integers, Sequences, FiniteSets, TLC

\* ---------------------------------------------------------------- bounds
\* longest free tail appended to a padded request prompt
MaxTail == 2
\* how far below the slice limit the padded prompts start
MaxPadBack == 3
\* identifiers the server's crypto.randomUUID() hands out in one run
MaxIds == 3
\* entries already in localStorage when the view starts
MaxStored == 1
\* generate requests one run of the view issues
MaxGens == 1
\* map coordinates a click or the map centre may take (the map alone)
MaxPoint == 2

\* ------------------------------------------------------- program constants
\* .slice(0, 90) in synthMockImage
SliceLimit == 90
\* useState<number>(150) for lengthMeters
DefaultLength == 150
\* useState<number>(0) for bearingDeg
DefaultBearing == 0

\* ---------------------------------------------------------------- strings
Undefined == [t |-> "undefined", s |-> <<>>]
Str(s) == [t |-> "string", s |-> s]

RECURSIVE Repeat(_, _)
Repeat(c, n) == IF n <= 0 THEN <<>> ELSE <<c>> \o Repeat(c, n - 1)

\* String.prototype.slice(0, n)
Slice(s, n) == IF Len(s) <= n THEN s ELSE SubSeq(s, 1, n)

\* String.prototype.replace(/c/g, rep) for a one-character pattern c
RECURSIVE ReplaceAll(_, _, _)
ReplaceAll(s, c, rep) ==
  IF s = <<>> THEN <<>>
  ELSE (IF Head(s) = c THEN rep ELSE <<Head(s)>>) \o ReplaceAll(Tail(s), c, rep)

AMP == <<"&", "a", "m", "p", ";">>
LT == <<"&", "l", "t", ";">>
GT == <<"&", "g", "t", ";">>

\* String.prototype.trim()
RECURSIVE TrimLeft(_)
TrimLeft(s) == IF s # <<>> /\ Head(s) = " " THEN TrimLeft(Tail(s)) ELSE s
RECURSIVE TrimRight(_)
TrimRight(s) ==
  IF s # <<>> /\ s[Len(s)] = " " THEN TrimRight(SubSeq(s, 1, Len(s) - 1)) ELSE s
Trim(s) == TrimRight(TrimLeft(s))

\* tuples over S of length 0..n
RECURSIVE SeqsUpTo(_, _)
SeqsUpTo(S, n) ==
  IF n = 0 THEN {<<>>}
  ELSE LET shorter == SeqsUpTo(S, n - 1)
       IN shorter \cup {Append(t, c) : t \in shorter, c \in S}

\* ----------------------------------------------------- mock image (route)
\* escapeHtml: three chained global replaces, '&' first
escapeHtml(s) == ReplaceAll(ReplaceAll(ReplaceAll(s, "&", AMP), "<", LT), ">", GT)

\* the caption the svg template embeds: escapeHtml(text).slice(0, 90)
MockCaption(s) == Slice(escapeHtml(s), SliceLimit)

NoImage == [kind |-> "none", caption |-> <<>>]
\* synthMockImage(text): text.replace(...) on a non-string throws a TypeError
TypeErrorMsg == "Cannot read properties of undefined (reading 'replace')"
synthMockImage(text) ==
  IF text.t = "string"
  THEN [threw |-> FALSE, msg |-> "", url |-> [kind |-> "svg", caption |-> MockCaption(text.s)]]
  ELSE [threw |-> TRUE, msg |-> TypeErrorMsg, url |-> NoImage]

\* ------------------------------------------------------------------ state
VARIABLES
  hasKey,        \* process.env.GOOGLE_API_KEY || process.env.GEMINI_API_KEY is set
  req,           \* the request body the route is handling (NoReq: none)
  resp,          \* the route's response, not yet consumed by the caller
  spc,           \* where POST stands: "idle", "sdk" (awaiting generateContent), "rest" (awaiting fetch)
  sdkOutcome,    \* what the SDK call did for this request
  restOutcome,   \* what the raw HTTP call did for this request
  sdkCalls,      \* calls of the external service through the SDK, this request
  restCalls,     \* calls of the external service through fetch, this request
  nextId,        \* crypto.randomUUID(): the next unused identifier
  stored,        \* window.localStorage under KEY
  items,         \* useHistory: the items state
  mounted,       \* useHistory: the mount effect has run
  lastOp,        \* the last call of the hook: operation, argument, what load() gave before it
  prompt,        \* MapView state
  arrow,
  bearingDeg,
  lengthMeters,
  mode,
  isGenerating,
  mapReady,      \* mapRef.current?.getMap() is available
  gen,           \* generate(): "idle" or "awaiting" (suspended in fetch)
  inflight,      \* fetches of /api/generate this view has started and not seen settle
  center,        \* map.getCenter(), as a coordinate index
  lastClick,     \* the last click on the map: its coordinate and the parity of the click count
  overlay,       \* what the last onRender drew on the overlay canvas
  arrowObj,      \* which object the arrow state holds: 0 one that no entry and no payload
                 \* refers to, else the label it shares with them
  payloadObj,    \* the label of payload.arrow while generate is suspended in fetch
  objOf,         \* the label of request.arrow, for each entry generate has added (by id)
  itemsAtCall,   \* the items of the render in which generate was invoked (while it runs)
  removedInFlight, \* ids removed since generate was last invoked and before it ended
  lastGen        \* how the last generate() ended: "none" (never invoked or still running),
                 \* "added", "failed" (console.error and alert), "nomap" (early return)

srvVars == <<hasKey, req, resp, spc, sdkOutcome, restOutcome, sdkCalls, restCalls, nextId>>
histVars == <<stored, items, mounted, lastOp>>
genVars == <<inflight, lastGen>>
mapVars == <<center, lastClick, overlay>>
refVars == <<arrowObj, payloadObj, objOf>>
flightVars == <<itemsAtCall, removedInFlight>>
viewVars == <<prompt, arrow, bearingDeg, lengthMeters, mode, isGenerating, mapReady, gen, genVars,
              mapVars, refVars, flightVars>>
vars == <<srvVars, histVars, viewVars>>

\* ------------------------------------------------------------ route: data
NoArrow == [set |-> FALSE, latitude |-> 0, longitude |-> 0, bearingDeg |-> 0, lengthMeters |-> 0]
Arrow(lat, lng, b, l) ==
  [set |-> TRUE, latitude |-> lat, longitude |-> lng, bearingDeg |-> b, lengthMeters |-> l]

NoReq == [sent |-> FALSE, parses |-> FALSE, prompt |-> Undefined, arrow |-> NoArrow]
Body(p, a) == [sent |-> TRUE, parses |-> TRUE, prompt |-> p, arrow |-> a]
\* a body req.json() cannot parse
BadBody == [sent |-> TRUE, parses |-> FALSE, prompt |-> Undefined, arrow |-> NoArrow]

NoResp == [status |-> 0, id |-> 0, imageDataUrl |-> NoImage, model |-> "", error |-> ""]
\* Response.json({ id, imageDataUrl, model })
Ok(id, url, model) ==
  [status |-> 200, id |-> id, imageDataUrl |-> url, model |-> model, error |-> ""]
\* new Response(JSON.stringify({ error: msg }), { status: 500 })
Err(msg) == [status |-> 500, id |-> 0, imageDataUrl |-> NoImage, model |-> "", error |-> msg]

DEFAULT_MODEL == "gemini-2.5-flash-image-preview"
NoImageMsg == "Model did not return an image"
JsonSyntaxMsg == "Unexpected token in JSON"
SdkErrMsg == "fetch failed"
RestNetMsg == "fetch failed"
RestHttpMsg == "HTTP 503"
ServiceImage == [kind |-> "inline", caption |-> <<>>]

SdkOutcomes == {"image", "noimage", "throw"}
RestOutcomes == {"image", "noimage", "http", "neterr"}

\* -------------------------------------------------------- route: call paths
\* mutant: the inner try without its catch
SdkPath_rethrow(o) ==
  IF o = "image" THEN [kind |-> "return", msg |-> ""]
  ELSE IF o = "throw" THEN [kind |-> "throw", msg |-> SdkErrMsg]
  ELSE [kind |-> "fallthrough", msg |-> ""]

\* the inner try/catch of POST: return on an inline image, fall through otherwise
SdkPath(o) ==
  IF o = "image" THEN [kind |-> "return", msg |-> ""]
  ELSE [kind |-> "fallthrough", msg |-> ""]

\* mutant: errors of the raw call propagate instead of being ignored
callImagesGenerateREST_propagate(o) ==
  IF o = "image" THEN [kind |-> "value", msg |-> ""]
  ELSE IF o = "neterr" THEN [kind |-> "throw", msg |-> RestNetMsg]
  ELSE IF o = "http" THEN [kind |-> "throw", msg |-> RestHttpMsg]
  ELSE [kind |-> "null", msg |-> ""]

\* mutant: the inline-data check is dropped
callImagesGenerateREST_nocheck(o) ==
  IF o \in {"image", "noimage"} THEN [kind |-> "value", msg |-> ""]
  ELSE [kind |-> "null", msg |-> ""]

\* callImagesGenerateREST: a result object on an inline image, null on anything else
callImagesGenerateREST(o) ==
  IF o = "image" THEN [kind |-> "value", msg |-> ""]
  ELSE [kind |-> "null", msg |-> ""]

\* ---------------------------------------------------------- route: actions
\* POST up to its first await of the service: req.json(), the credential test, the mock branch
PostStart ==
  /\ req.sent /\ spc = "idle" /\ resp = NoResp
  /\ IF ~req.parses
     THEN /\ resp' = Err(JsonSyntaxMsg)
          /\ UNCHANGED <<spc, nextId>>
     ELSE IF ~hasKey
     THEN LET m == synthMockImage(req.prompt)
          IN IF m.threw
             THEN resp' = Err(m.msg) /\ UNCHANGED <<spc, nextId>>
             ELSE /\ resp' = Ok(nextId, m.url, "mock")
                  /\ nextId' = nextId + 1
                  /\ UNCHANGED spc
     ELSE /\ spc' = "sdk"
          /\ UNCHANGED <<resp, nextId>>
  /\ UNCHANGED <<hasKey, req, sdkOutcome, restOutcome, sdkCalls, restCalls>>
  /\ UNCHANGED <<histVars, viewVars>>

\* model.generateContent(...) settles
SdkCall ==
  /\ spc = "sdk"
  /\ \E o \in SdkOutcomes :
       LET r == SdkPath(o)
       IN /\ sdkOutcome' = o
          /\ sdkCalls' = sdkCalls + 1
          /\ IF r.kind = "return"
             THEN /\ resp' = Ok(nextId, ServiceImage, DEFAULT_MODEL)
                  /\ nextId' = nextId + 1
                  /\ spc' = "idle"
             ELSE IF r.kind = "throw"
             THEN /\ resp' = Err(r.msg)
                  /\ spc' = "idle"
                  /\ UNCHANGED nextId
             ELSE /\ spc' = "rest"
                  /\ UNCHANGED <<resp, nextId>>
  /\ UNCHANGED <<hasKey, req, restOutcome, restCalls>>
  /\ UNCHANGED <<histVars, viewVars>>

\* the fetch of callImagesGenerateREST settles; POST returns rest or throws
RestCall ==
  /\ spc = "rest"
  /\ \E o \in RestOutcomes :
       LET r == callImagesGenerateREST(o)
       IN /\ restOutcome' = o
          /\ restCalls' = restCalls + 1
          /\ spc' = "idle"
          /\ IF r.kind = "value"
             THEN /\ resp' = Ok(nextId, ServiceImage, DEFAULT_MODEL)
                  /\ nextId' = nextId + 1
             ELSE /\ resp' = Err(IF r.kind = "throw" THEN r.msg ELSE NoImageMsg)
                  /\ UNCHANGED nextId
  /\ UNCHANGED <<hasKey, req, sdkOutcome, sdkCalls>>
  /\ UNCHANGED <<histVars, viewVars>>

\* ------------------------------------------------- a caller of the route
TailChars == {"a", "&", "<", ">"}
PadLens == {0} \cup ((SliceLimit - MaxPadBack) .. SliceLimit)
PaddedPrompts ==
  {Repeat("a", k) \o t : k \in PadLens, t \in SeqsUpTo(TailChars, MaxTail)}
ApiArrow == Arrow(1, 1, DefaultBearing, DefaultLength)
ApiBodies ==
  {BadBody, Body(Undefined, ApiArrow)} \cup {Body(Str(p), ApiArrow) : p \in PaddedPrompts}

\* any HTTP client posts a body to /api/generate
ApiSend ==
  /\ ~req.sent /\ resp = NoResp /\ nextId <= MaxIds
  /\ \E b \in ApiBodies : req' = b
  /\ UNCHANGED <<hasKey, resp, spc, sdkOutcome, restOutcome, sdkCalls, restCalls, nextId>>
  /\ UNCHANGED <<histVars, viewVars>>

\* the client reads the response
ApiReceive ==
  /\ req.sent /\ resp # NoResp
  /\ req' = NoReq /\ resp' = NoResp
  /\ sdkOutcome' = "none" /\ restOutcome' = "none"
  /\ sdkCalls' = 0 /\ restCalls' = 0
  /\ UNCHANGED <<hasKey, spc, nextId>>
  /\ UNCHANGED <<histVars, viewVars>>

\* ------------------------------------------------------ history: storage
\* JSON.stringify of a PovResult: a property whose value is undefined is not written
JsonOf(item) ==
  IF "safetyLabels" \in DOMAIN item /\ item.safetyLabels.t = "undefined"
  THEN [k \in DOMAIN item \ {"safetyLabels"} |-> item[k]]
  ELSE item
JsonList(history) == [i \in 1 .. Len(history) |-> JsonOf(history[i])]

\* the value under KEY: absent (getItem gives null), "", text JSON.parse rejects,
\* JSON that is no array, or the JSON text of an array (val: the array it parses to)
NoEntry == [kind |-> "null", val |-> <<>>]
EmptyText == [kind |-> "empty", val |-> <<>>]
Garbage == [kind |-> "garbage", val |-> <<>>]
NonArray == [kind |-> "object", val |-> <<>>]
ArrayText(list) == [kind |-> "array", val |-> list]

\* mutant: no try/catch around JSON.parse
loadHistory_nocatch(store) ==
  IF store.kind \in {"null", "empty"} THEN [threw |-> FALSE, list |-> <<>>]
  ELSE IF store.kind = "garbage" THEN [threw |-> TRUE, list |-> <<>>]
  ELSE IF store.kind # "array" THEN [threw |-> FALSE, list |-> <<>>]
  ELSE [threw |-> FALSE, list |-> store.val]

\* loadHistory. Its typeof window === "undefined" guard is never taken: MapView is
\* imported with ssr: false, so the hook only runs in the browser.
loadHistory(store) ==
  IF store.kind \in {"null", "empty"} THEN [threw |-> FALSE, list |-> <<>>]
  ELSE IF store.kind = "garbage" THEN [threw |-> FALSE, list |-> <<>>]
  ELSE IF store.kind # "array" THEN [threw |-> FALSE, list |-> <<>>]
  ELSE [threw |-> FALSE, list |-> store.val]

\* mutant: the early return of the server-side guard is always taken
saveHistory_skipped(store, history) == store

\* saveHistory: setItem(KEY, JSON.stringify(history)), replacing what was there
\* (in the browser; see loadHistory)
saveHistory(store, history) == ArrayText(JsonList(history))

\* --------------------------------------------------------- history: hook
\* mutant: the new item goes to the back
addUpdater_append(item, prev) == Append(prev, item)

\* the updater of add: [item, ...prev]
addUpdater(item, prev) == <<item>> \o prev

\* mutant: the filter keeps everything after the first match only
removeUpdater_first(id, prev) ==
  IF prev # <<>> /\ Head(prev).id = id THEN Tail(prev) ELSE prev

\* the updater of remove: prev.filter((p) => p.id !== id)
removeUpdater(id, prev) == SelectSeq(prev, LAMBDA p : p.id # id)

\* a PovResult as generate builds it
Result(id, p, a, url, model) ==
  [id |-> id, request |-> [prompt |-> p, arrow |-> a], mapSnapshotDataUrl |-> "jpeg",
   imageDataUrl |-> url, model |-> model, safetyLabels |-> Undefined]
NoItem == Result(0, <<>>, NoArrow, NoImage, "")
Op(op, id, item, before) == [op |-> op, id |-> id, item |-> item, before |-> before]

\* the mount effect: setItems(loadHistory())
Mount ==
  /\ mounted = "pending"
  /\ LET l == loadHistory(stored)
     IN IF l.threw
        THEN mounted' = "crashed" /\ UNCHANGED items
        ELSE mounted' = "mounted" /\ items' = l.list
  /\ UNCHANGED <<stored, lastOp>>
  /\ UNCHANGED <<srvVars, viewVars>>

\* mutant: the updater works on the items its caller saw when it was invoked
UpdaterPrev_stale(latest, atCall) == atCall

\* setItems((prev) => ...): the updater is handed the latest state
UpdaterPrev(latest, atCall) == latest

\* add(item): the updater runs and saves
add(item) ==
  /\ mounted = "mounted"
  /\ items' = addUpdater(item, UpdaterPrev(items, itemsAtCall))
  /\ stored' = saveHistory(stored, items')
  /\ UNCHANGED mounted

\* remove(id)
remove(id) ==
  /\ mounted = "mounted"
  /\ items' = removeUpdater(id, items)
  /\ stored' = saveHistory(stored, items')
  /\ UNCHANGED mounted

\* clear()
clear ==
  /\ mounted = "mounted"
  /\ items' = <<>>
  /\ stored' = saveHistory(stored, <<>>)
  /\ UNCHANGED mounted

\* ------------------------------------------- history: a user of the hook
\* what an earlier session of the program left under KEY: entries with distinct ids
StoredItem(k) ==
  JsonOf(Result(0 - k, <<"a">>, Arrow(1, 1, 90, 50), ServiceImage, DEFAULT_MODEL))
StoredLists ==
  {l \in SeqsUpTo(1 .. MaxStored, MaxStored) : \A i, j \in 1 .. Len(l) : l[i] = l[j] => i = j}
InitialStores ==
  {NoEntry, EmptyText, Garbage, NonArray}
    \cup {ArrayText([i \in 1 .. Len(l) |-> StoredItem(l[i])]) : l \in StoredLists}
HistPrompts == {<<>>, <<"a">>}
AllIds == ((0 - MaxStored) .. (0 - 1)) \cup (1 .. MaxIds)

HistAdd ==
  /\ nextId <= MaxIds
  /\ \E p \in HistPrompts :
       LET item == Result(nextId, p, ApiArrow, [kind |-> "svg", caption |-> p], "mock")
       IN add(item) /\ lastOp' = Op("add", item.id, item, loadHistory(stored).list)
  /\ nextId' = nextId + 1
  /\ UNCHANGED <<hasKey, req, resp, spc, sdkOutcome, restOutcome, sdkCalls, restCalls>>
  /\ UNCHANGED viewVars

HistRemove ==
  /\ \E id \in AllIds :
       remove(id) /\ lastOp' = Op("remove", id, NoItem, loadHistory(stored).list)
  /\ UNCHANGED <<srvVars, viewVars>>

HistClear ==
  /\ clear /\ lastOp' = Op("clear", 0, NoItem, loadHistory(stored).list)
  /\ UNCHANGED <<srvVars, viewVars>>

\* ------------------------------------------------------------ the view
ViewPrompts == {<<>>, <<"a", " ">>}
Bearings == {DefaultBearing, 90}
Lengths == {DefaultLength, 50}
ClickPoints == {1}

\* event handlers run after the mount effect of useHistory has been flushed
Interactive == mounted = "mounted"

\* ------------------------------------------------------------ view: the map and its overlay
\* DEFAULT_CENTER, as a coordinate index
DefaultCenter == 1
\* pixels per coordinate unit of map.project at the initial zoom
PxPerUnit == 100
MapPoints == 1 .. MaxPoint
MapBearings == {0, 90, 180, 270}
CanvasSizes == {[width |-> 800, height |-> 600], [width |-> 400, height |-> 400]}

NoClick == [pt |-> 0, odd |-> FALSE]
\* Math.sin and Math.cos of bearing * PI / 180, at the right angles
SinDeg(b) == CASE b = 0 -> 0 [] b = 90 -> 1 [] b = 180 -> 0 [] b = 270 -> -1
CosDeg(b) == CASE b = 0 -> 1 [] b = 90 -> 0 [] b = 180 -> -1 [] b = 270 -> 0
Min(a, b) == IF a <= b THEN a ELSE b
\* map.project([longitude, latitude]): canvas pixel of a coordinate, y growing downwards
Project(lng, lat, c, width, height) ==
  [x |-> width \div 2 + PxPerUnit * (lng - c), y |-> height \div 2 - PxPerUnit * (lat - c)]

NoDrawing(width, height) ==
  [drawn |-> FALSE, arrow |-> NoArrow, width |-> width, height |-> height,
   originX |-> 0, originY |-> 0, endX |-> 0, endY |-> 0]

\* drawOverlay: the shaft of the arrow, from origin to (endX, endY)
drawOverlay(a, c, width, height) ==
  IF ~a.set
  THEN NoDrawing(width, height)
  ELSE LET origin == Project(a.longitude, a.latitude, c, width, height)
           lengthPx == Min(width, height) \div 4
       IN [drawn |-> TRUE, arrow |-> a, width |-> width, height |-> height,
           originX |-> origin.x, originY |-> origin.y,
           endX |-> origin.x + SinDeg(a.bearingDeg) * lengthPx,
           endY |-> origin.y - CosDeg(a.bearingDeg) * lengthPx]

\* mutant: the mode is not tested
ClickArrow_anymode(m, a, pt, b, l) == Arrow(pt, pt, b, l)

\* onMapClick: the arrow state after a click at pt
ClickArrow(m, a, pt, b, l) == IF m # "draw" THEN a ELSE Arrow(pt, pt, b, l)

\* mutant: drag panning is always on
dragPan_always(m) == TRUE

\* the Map's dragPan prop
dragPan(m) == m = "pan"

\* ------------------------------------------------------------ view: object identity
\* the arrow state and the request.arrow of entries are references; an entry parsed from
\* storage has an object of its own, labelled by the entry's id
LabelOf(it, refs) == IF it.id < 0 THEN it.id ELSE refs[it.id]

\* payload.arrow is the object the arrow state holds; if nothing else refers to it yet it
\* gets the label of the entry this invocation may add
PayloadLabel(obj, id) == IF obj = 0 THEN id ELSE obj

\* the arrow state keeps the object it holds
Held(a, obj) == [arrow |-> a, obj |-> obj]

\* the entries as seen once the object labelled obj has the value a
Aliased(its, refs, obj, a) ==
  [i \in 1 .. Len(its) |->
     IF obj # 0 /\ LabelOf(its[i], refs) = obj
     THEN [its[i] EXCEPT !.request.arrow = a]
     ELSE its[i]]

\* mutant: the slider writes into the object the arrow state holds
withBearing_inplace(a, obj, v) == [arrow |-> [a EXCEPT !.bearingDeg = v], obj |-> obj]

\* setArrow({ ...arrow, bearingDeg: v }): a new object
withBearing(a, obj, v) == [arrow |-> [a EXCEPT !.bearingDeg = v], obj |-> 0]

\* mutant: the slider writes into the object the arrow state holds
withLength_inplace(a, obj, v) == [arrow |-> [a EXCEPT !.lengthMeters = v], obj |-> obj]

\* setArrow({ ...arrow, lengthMeters: v }): a new object
withLength(a, obj, v) == [arrow |-> [a EXCEPT !.lengthMeters = v], obj |-> 0]

\* the map instance is created after the component mounts
MapLoad ==
  /\ ~mapReady
  /\ mapReady' = TRUE
  /\ UNCHANGED <<prompt, arrow, bearingDeg, lengthMeters, mode, isGenerating, gen>>
  /\ UNCHANGED <<genVars, mapVars, refVars>>
  /\ UNCHANGED <<srvVars, histVars>>
  /\ UNCHANGED flightVars

\* the Pan / Draw arrow buttons
SetMode ==
  /\ Interactive
  /\ \E m \in {"pan", "draw"} : mode' = m
  /\ UNCHANGED <<prompt, arrow, bearingDeg, lengthMeters, isGenerating, mapReady, gen>>
  /\ UNCHANGED <<genVars, mapVars, refVars>>
  /\ UNCHANGED <<srvVars, histVars>>
  /\ UNCHANGED flightVars

\* onMapClick
onMapClick ==
  /\ Interactive /\ mapReady
  /\ \E pt \in ClickPoints : arrow' = ClickArrow(mode, arrow, pt, bearingDeg, lengthMeters)
  /\ UNCHANGED <<prompt, bearingDeg, lengthMeters, mode, isGenerating, mapReady, gen>>
  /\ arrowObj' = IF mode # "draw" THEN arrowObj ELSE 0
  /\ UNCHANGED <<genVars, mapVars, payloadObj, objOf>>
  /\ UNCHANGED <<srvVars, histVars>>
  /\ UNCHANGED flightVars

\* the Direction slider's onChange
SetBearing ==
  /\ Interactive
  /\ \E v \in Bearings :
       /\ bearingDeg' = v
       /\ LET r == IF arrow.set THEN withBearing(arrow, arrowObj, v) ELSE Held(arrow, arrowObj)
          IN /\ arrow' = r.arrow
             /\ arrowObj' = r.obj
             /\ items' = Aliased(items, objOf, r.obj, r.arrow)
  /\ UNCHANGED <<prompt, lengthMeters, mode, isGenerating, mapReady, gen>>
  /\ UNCHANGED <<genVars, mapVars, payloadObj, objOf>>
  /\ UNCHANGED <<srvVars, stored, mounted, lastOp>>
  /\ UNCHANGED flightVars

\* the Arrow length slider's onChange
SetLength ==
  /\ Interactive
  /\ \E v \in Lengths :
       /\ lengthMeters' = v
       /\ LET r == IF arrow.set THEN withLength(arrow, arrowObj, v) ELSE Held(arrow, arrowObj)
          IN /\ arrow' = r.arrow
             /\ arrowObj' = r.obj
             /\ items' = Aliased(items, objOf, r.obj, r.arrow)
  /\ UNCHANGED <<prompt, bearingDeg, mode, isGenerating, mapReady, gen>>
  /\ UNCHANGED <<genVars, mapVars, payloadObj, objOf>>
  /\ UNCHANGED <<srvVars, stored, mounted, lastOp>>
  /\ UNCHANGED flightVars

\* the caption textarea's onChange
SetPrompt ==
  /\ Interactive
  /\ \E p \in ViewPrompts : prompt' = p
  /\ UNCHANGED <<arrow, bearingDeg, lengthMeters, mode, isGenerating, mapReady, gen>>
  /\ UNCHANGED <<genVars, mapVars, refVars>>
  /\ UNCHANGED <<srvVars, histVars>>
  /\ UNCHANGED flightVars

\* clearArrow
clearArrow ==
  /\ Interactive
  /\ arrow' = NoArrow
  /\ UNCHANGED <<prompt, bearingDeg, lengthMeters, mode, isGenerating, mapReady, gen>>
  /\ arrowObj' = 0
  /\ UNCHANGED <<genVars, mapVars, payloadObj, objOf>>
  /\ UNCHANGED <<srvVars, histVars>>
  /\ UNCHANGED flightVars

\* a click on the map, anywhere
MapClick ==
  /\ Interactive /\ mapReady
  /\ \E pt \in MapPoints :
       /\ arrow' = ClickArrow(mode, arrow, pt, bearingDeg, lengthMeters)
       /\ lastClick' = [pt |-> pt, odd |-> ~lastClick.odd]
  /\ UNCHANGED <<prompt, bearingDeg, lengthMeters, mode, isGenerating, mapReady, gen>>
  /\ arrowObj' = IF mode # "draw" THEN arrowObj ELSE 0
  /\ UNCHANGED <<genVars, center, overlay, payloadObj, objOf>>
  /\ UNCHANGED <<srvVars, histVars>>
  /\ UNCHANGED flightVars

\* a drag on the map: the drag-pan handler moves the centre when it is enabled
MapDrag ==
  /\ Interactive /\ mapReady
  /\ dragPan(mode)
  /\ \E c \in MapPoints \ {center} : center' = c
  /\ UNCHANGED <<prompt, arrow, bearingDeg, lengthMeters, mode, isGenerating, mapReady, gen>>
  /\ UNCHANGED <<genVars, lastClick, overlay, refVars>>
  /\ UNCHANGED <<srvVars, histVars>>
  /\ UNCHANGED flightVars

\* the Direction slider over the right angles
MapBearing ==
  /\ Interactive
  /\ \E v \in MapBearings :
       /\ bearingDeg' = v
       /\ LET r == IF arrow.set THEN withBearing(arrow, arrowObj, v) ELSE Held(arrow, arrowObj)
          IN /\ arrow' = r.arrow
             /\ arrowObj' = r.obj
             /\ items' = Aliased(items, objOf, r.obj, r.arrow)
  /\ UNCHANGED <<prompt, lengthMeters, mode, isGenerating, mapReady, gen>>
  /\ UNCHANGED <<genVars, mapVars, payloadObj, objOf>>
  /\ UNCHANGED <<srvVars, stored, mounted, lastOp>>
  /\ UNCHANGED flightVars

\* onRender: the map has rendered a frame; the overlay is cleared and redrawn
onRender ==
  /\ mapReady
  /\ \E size \in CanvasSizes : overlay' = drawOverlay(arrow, center, size.width, size.height)
  /\ UNCHANGED <<prompt, arrow, bearingDeg, lengthMeters, mode, isGenerating, mapReady, gen>>
  /\ UNCHANGED <<genVars, center, lastClick, refVars>>
  /\ UNCHANGED <<srvVars, histVars>>
  /\ UNCHANGED flightVars

\* the Tweak button of a history entry
Tweak ==
  /\ Interactive
  /\ \E i \in 1 .. Len(items) :
       /\ prompt' = items[i].request.prompt
       /\ arrow' = items[i].request.arrow
       /\ arrowObj' = LabelOf(items[i], objOf)
  /\ UNCHANGED <<bearingDeg, lengthMeters, mode, isGenerating, mapReady, gen>>
  /\ UNCHANGED <<genVars, mapVars, payloadObj, objOf>>
  /\ UNCHANGED <<srvVars, histVars>>
  /\ UNCHANGED flightVars

\* the Delete button of a history entry
Delete ==
  /\ \E i \in 1 .. Len(items) :
       /\ remove(items[i].id)
       /\ removedInFlight' = IF gen = "awaiting"
                             THEN removedInFlight \cup {items[i].id}
                             ELSE removedInFlight
  /\ UNCHANGED lastOp
  /\ UNCHANGED <<prompt, arrow, bearingDeg, lengthMeters, mode, isGenerating, mapReady, gen>>
  /\ UNCHANGED <<srvVars, genVars, mapVars, refVars, itemsAtCall>>

\* prompt: prompt.trim() || undefined
PayloadPrompt(p) == IF Trim(p) = <<>> THEN Undefined ELSE Str(Trim(p))
\* payload.prompt || ""
RequestPrompt(p) == IF p.t = "string" THEN p.s ELSE <<>>

\* mutant: the button is disabled on a missing arrow only
GenerateEnabled_noflag(a, busy) == a.set

\* the Generate View button (disabled={!arrow || isGenerating}) and generate's if (!arrow) return
GenerateEnabled(a, busy) == a.set /\ ~busy

\* mutant: the flag is reset on the success path only (no finally)
FlagAfter_nofinally(end) == end # "added"

\* isGenerating once generate has ended: finally { setIsGenerating(false) } on every path
FlagAfter(end) == FALSE

\* mutant: the response status is not tested
ResOk_always(r) == TRUE

\* res.ok
ResOk(r) == r.status = 200

\* generate, from the click on Generate View to its suspension in fetch
\* (or to its early return when the map state is unavailable)
GenerateClick ==
  /\ Interactive
  /\ GenerateEnabled(arrow, isGenerating)
  /\ nextId <= MaxGens /\ inflight <= MaxGens
  /\ IF ~mapReady
     THEN /\ isGenerating' = FlagAfter("nomap")
          /\ lastGen' = "nomap"
          /\ UNCHANGED <<gen, req, inflight, arrowObj, payloadObj, flightVars>>
     ELSE /\ isGenerating' = TRUE
          /\ gen' = "awaiting"
          /\ inflight' = inflight + 1
          /\ lastGen' = "none"
          /\ req' = Body(PayloadPrompt(prompt), arrow)
          /\ arrowObj' = PayloadLabel(arrowObj, nextId)
          /\ payloadObj' = PayloadLabel(arrowObj, nextId)
          /\ itemsAtCall' = items
          /\ removedInFlight' = {}
  /\ UNCHANGED <<hasKey, resp, spc, sdkOutcome, restOutcome, sdkCalls, restCalls, nextId>>
  /\ UNCHANGED <<prompt, arrow, bearingDeg, lengthMeters, mode, mapReady, mapVars>>
  /\ UNCHANGED <<histVars, objOf>>

\* fetch rejects: the request never reaches the route
FetchReject ==
  /\ gen = "awaiting" /\ req.sent /\ resp = NoResp /\ spc = "idle"
  /\ req' = NoReq
  /\ gen' = "idle"
  /\ inflight' = inflight - 1
  /\ lastGen' = "failed"
  /\ isGenerating' = FlagAfter("failed")
  /\ UNCHANGED <<hasKey, resp, spc, sdkOutcome, restOutcome, sdkCalls, restCalls, nextId>>
  /\ UNCHANGED <<prompt, arrow, bearingDeg, lengthMeters, mode, mapReady, mapVars>>
  /\ payloadObj' = 0
  /\ itemsAtCall' = <<>>
  /\ UNCHANGED removedInFlight
  /\ UNCHANGED <<histVars, arrowObj, objOf>>

\* generate resumes with the route's response: throw on !res.ok, else add(result); finally
GenerateResume ==
  /\ gen = "awaiting" /\ resp # NoResp
  /\ IF ~ResOk(resp)
     THEN /\ lastGen' = "failed"
          /\ isGenerating' = FlagAfter("failed")
          /\ UNCHANGED <<histVars, objOf>>
     ELSE /\ add(Result(resp.id, RequestPrompt(req.prompt), req.arrow,
                        resp.imageDataUrl, resp.model))
          /\ lastGen' = "added"
          /\ isGenerating' = FlagAfter("added")
          /\ objOf' = [objOf EXCEPT ![resp.id] = payloadObj]
          /\ UNCHANGED lastOp
  /\ gen' = "idle"
  /\ payloadObj' = 0
  /\ itemsAtCall' = <<>>
  /\ UNCHANGED removedInFlight
  /\ UNCHANGED arrowObj
  /\ inflight' = inflight - 1
  /\ req' = NoReq /\ resp' = NoResp
  /\ sdkOutcome' = "none" /\ restOutcome' = "none"
  /\ sdkCalls' = 0 /\ restCalls' = 0
  /\ UNCHANGED <<hasKey, spc, nextId>>
  /\ UNCHANGED <<prompt, arrow, bearingDeg, lengthMeters, mode, mapReady, mapVars>>

\* ------------------------------------------------------- specifications
InitSrv ==
  /\ hasKey \in BOOLEAN
  /\ req = NoReq /\ resp = NoResp /\ spc = "idle"
  /\ sdkOutcome = "none" /\ restOutcome = "none"
  /\ sdkCalls = 0 /\ restCalls = 0
  /\ nextId = 1
InitHist ==
  /\ stored \in InitialStores
  /\ items = <<>>
  /\ mounted = "pending"
  /\ lastOp = Op("none", 0, NoItem, <<>>)
InitView ==
  /\ prompt = <<>>
  /\ arrow = NoArrow
  /\ bearingDeg = DefaultBearing
  /\ lengthMeters = DefaultLength
  /\ mode = "draw"
  /\ isGenerating = FALSE
  /\ mapReady = FALSE
  /\ gen = "idle"
  /\ inflight = 0
  /\ lastGen = "none"
  /\ arrowObj = 0
  /\ payloadObj = 0
  /\ itemsAtCall = <<>>
  /\ removedInFlight = {}
  /\ objOf = [id \in 1 .. MaxIds |-> 0]
  /\ center = DefaultCenter
  /\ lastClick = NoClick
  /\ overlay = NoDrawing(0, 0)

\* what an earlier session of the view left in storage: an unreadable value, or one entry
ViewStores == {Garbage, ArrayText(<<StoredItem(1)>>)}

\* the view with all its handlers, the history store, and the route behind it with no
\* credential configured (the route with a credential is in SpecApi and SpecLive)
Init == InitSrv /\ InitHist /\ InitView /\ stored \in ViewStores
InitNoKey == Init /\ ~hasKey
Next ==
  \/ Mount \/ MapLoad \/ SetMode \/ onMapClick \/ SetBearing \/ SetLength \/ SetPrompt
  \/ clearArrow \/ Tweak \/ Delete \/ GenerateClick \/ FetchReject \/ GenerateResume
  \/ PostStart
Spec == InitNoKey /\ [][Next]_vars

\* the route alone, called with any body
InitApi == InitSrv /\ InitView /\ stored = NoEntry /\ items = <<>> /\ mounted = "pending"
             /\ lastOp = Op("none", 0, NoItem, <<>>)
NextApi == ApiSend \/ PostStart \/ SdkCall \/ RestCall \/ ApiReceive
SpecApi == InitApi /\ [][NextApi]_vars

\* the history hook alone, called in any order
InitHistory == InitHist /\ InitView /\ InitSrv /\ hasKey = FALSE
NextHistory == Mount \/ HistAdd \/ HistRemove \/ HistClear
SpecHistory == InitHistory /\ [][NextHistory]_vars

\* the map alone: modes, clicks, drags, sliders and the overlay
InitMap == InitSrv /\ InitView /\ hasKey = FALSE /\ stored = NoEntry /\ items = <<>>
             /\ mounted = "pending" /\ lastOp = Op("none", 0, NoItem, <<>>)
NextMap ==
  \/ Mount \/ MapLoad \/ SetMode \/ MapClick \/ MapDrag \/ MapBearing \/ SetLength
  \/ clearArrow \/ onRender
SpecMap == InitMap /\ [][NextMap]_vars

\* generate and what it waits for, with or without a credential, with the scheduling the runtime gives: a request that
\* has arrived is handled, each awaited call of the route settles, and generate is
\* resumed once its fetch has a response
NextLive ==
  \/ Mount \/ MapLoad \/ onMapClick \/ SetPrompt \/ clearArrow \/ Tweak \/ Delete
  \/ GenerateClick \/ FetchReject \/ GenerateResume
  \/ PostStart \/ SdkCall \/ RestCall
Fairness ==
  /\ WF_vars(PostStart) /\ WF_vars(SdkCall) /\ WF_vars(RestCall)
  /\ WF_vars(GenerateResume)
SpecLive == Init /\ [][NextLive]_vars /\ Fairness

\* ------------------------------------------------------------ properties
Responded == resp # NoResp

\* C1: with no credential configured, every (parseable) request body gets the success
\* response: a placeholder image tagged "mock", never the status 500 response.
C1_MockNeverFails ==
  (~hasKey /\ req.parses /\ Responded)
    => (resp.status = 200 /\ resp.model = "mock" /\ resp.imageDataUrl.kind = "svg")

\* C2: with an arrow of bearing 0 and length 150, an empty prompt and no credential,
\* a generate that receives the route's response prepends one entry to the history,
\* tagged "mock" and carrying the placeholder image.
C2_EmptyPromptScenario ==
  [][(/\ gen = "awaiting" /\ Responded /\ gen' = "idle"
      /\ ~hasKey
      /\ req.prompt = Undefined
      /\ req.arrow.bearingDeg = DefaultBearing
      /\ req.arrow.lengthMeters = DefaultLength)
     => (/\ Len(items') = Len(items) + 1
         /\ Head(items').model = "mock"
         /\ Head(items').imageDataUrl.kind = "svg")]_vars

\* C3: in mock mode the caption embedded in the placeholder is the prompt cut to its
\* first 90 characters and then escaped, so no entity is cut.
C3_TruncateThenEscape ==
  (~hasKey /\ Responded /\ resp.status = 200)
    => resp.imageDataUrl.caption = escapeHtml(Slice(req.prompt.s, SliceLimit))

\* C4: the service is called at most once through each path, so at most twice for
\* one request; when the SDK call threw, the raw HTTP call has been made exactly once
\* by the time the route responds, and if that call gave no image the response is
\* the status 500 error.
C4_FallbackOnce ==
  /\ sdkCalls <= 1 /\ restCalls <= 1
  /\ (Responded /\ sdkOutcome = "throw") => restCalls = 1
  /\ (Responded /\ sdkOutcome = "throw" /\ restOutcome # "image")
       => (resp.status = 500 /\ resp.error # "")
C4_Witness ==
  /\ Responded /\ sdkOutcome = "throw" /\ restOutcome = "neterr"
  /\ sdkCalls = 1 /\ restCalls = 1 /\ resp.status = 500

\* C5 as claimed: a failure caused by a network error of the raw HTTP call carries
\* that error's message.
C5_UnderlyingMessage ==
  (Responded /\ resp.status = 500 /\ restOutcome = "neterr") => resp.error = RestNetMsg
\* C5 as amended: a failure after a network or HTTP error of either call path carries
\* the fixed message "Model did not return an image"; the underlying message is dropped.
C5_FixedMessage ==
  (Responded /\ resp.status = 500 /\ (sdkOutcome = "throw" \/ restOutcome \in {"neterr", "http"}))
    => resp.error = NoImageMsg
C5_Witness ==
  Responded /\ resp.status = 500 /\ sdkOutcome = "throw" /\ restOutcome = "neterr"

\* C6 as claimed: a successful-looking response without an inline image, from either
\* call path, ends the request in failure with "Model did not return an image".
C6_NoImageAlwaysFails ==
  (Responded /\ (sdkOutcome = "noimage" \/ restOutcome = "noimage"))
    => (resp.status = 500 /\ resp.error = NoImageMsg)
\* C6 as amended: a raw HTTP response without an inline image ends the request in
\* failure with "Model did not return an image"; an SDK response without one only
\* leads to the raw HTTP call, and the request then succeeds iff that call gives an image.
C6_LastNoImageFails ==
  /\ (Responded /\ restOutcome = "noimage")
       => (resp.status = 500 /\ resp.error = NoImageMsg)
  /\ (Responded /\ sdkOutcome = "noimage")
       => (restCalls = 1 /\ (resp.status = 200 <=> restOutcome = "image"))
C6_Witness ==
  Responded /\ sdkOutcome = "noimage" /\ restOutcome = "noimage" /\ resp.status = 500

Loaded == loadHistory(stored).list
\* s with its i-th element left out
Without(s, i) == SubSeq(s, 1, i - 1) \o SubSeq(s, i + 1, Len(s))

\* C7: after add(item), load() gives the item (as JSON stores it: a property whose
\* value is undefined is absent) followed by what load() gave before, in that order.
C7_AddThenLoad ==
  lastOp.op = "add" => Loaded = <<JsonOf(lastOp.item)>> \o lastOp.before
C7_Witness ==
  lastOp.op = "add" /\ Len(lastOp.before) >= 2 /\ Len(Loaded) >= 3

\* C8: after remove(id), load() gives what it gave before with the one entry of that
\* id left out and the others in their order; with no entry of that id, the same list.
C8_RemoveThenLoad ==
  lastOp.op = "remove" =>
    LET hits == {i \in 1 .. Len(lastOp.before) : lastOp.before[i].id = lastOp.id}
    IN /\ Cardinality(hits) <= 1
       /\ hits = {} => Loaded = lastOp.before
       /\ \A i \in hits : Loaded = Without(lastOp.before, i)
C8_Witness ==
  /\ lastOp.op = "remove" /\ Len(lastOp.before) >= 3
  /\ lastOp.before[2].id = lastOp.id /\ Len(Loaded) = Len(lastOp.before) - 1

\* C9: after add, remove or clear, what load() gives is the in-memory list (as JSON
\* values), whatever was stored when the view started.
C9_PersistedIsMemory ==
  lastOp.op \in {"add", "remove", "clear"} => Loaded = JsonList(items)
C9_Witness ==
  lastOp.op = "remove" /\ Len(items) >= 2 /\ Len(lastOp.before) > Len(items)

\* C10: load() does not throw; on a missing, empty, unparseable or non-array value it
\* gives the empty list, and the mounted view then holds the empty history.
C10_LoadTolerant ==
  /\ ~loadHistory(stored).threw
  /\ mounted # "crashed"
  /\ stored.kind # "array" => Loaded = <<>>
  /\ (mounted = "mounted" /\ stored.kind # "array") => items = <<>>
C10_Witness ==
  mounted = "mounted" /\ stored.kind = "garbage" /\ items = <<>>

\* C11: a generation request is issued only in a state where an arrow is selected and
\* no request of this view is outstanding, so the view never has two in flight.
C11_GenerateGated ==
  /\ [](inflight <= 1)
  /\ [][inflight' > inflight =>
          /\ arrow.set /\ ~isGenerating /\ inflight = 0
          /\ req'.sent /\ req'.arrow = arrow]_vars
C11_Witness ==
  inflight = 1 /\ isGenerating /\ arrow.set /\ ~GenerateEnabled(arrow, isGenerating)

\* C12: when a generation request fails (a response that is not OK, or a rejected
\* fetch), the user is alerted, the in-progress flag is reset, and the history is what
\* it was just before, in memory and in storage.
C12_FailureKeepsHistory ==
  [][(gen = "awaiting" /\ gen' = "idle" /\ (resp = NoResp \/ resp.status # 200)) =>
       /\ lastGen' = "failed"
       /\ ~isGenerating'
       /\ items' = items /\ stored' = stored]_vars
C12_Witness ==
  lastGen = "failed" /\ ~isGenerating /\ gen = "idle" /\ items # <<>> /\ Loaded = JsonList(items)

\* C13: the mode is always pan or draw; in pan mode a map click leaves the arrow as it
\* is and drag panning is on (a drag can move the map); in draw mode a map click sets
\* the arrow at the clicked coordinate and drag panning is off (the map moves in pan
\* mode only).
C13_ModeGovernsClickAndDrag ==
  /\ [](mode \in {"pan", "draw"})
  /\ [](mode = "pan" => dragPan(mode))
  /\ [](mode = "draw" => ~dragPan(mode))
  /\ []((mode = "pan" /\ mapReady /\ Interactive) => ENABLED MapDrag)
  /\ [][center' # center => mode = "pan"]_vars
  /\ [][lastClick' # lastClick =>
          /\ mode = "pan" => arrow' = arrow
          /\ mode = "draw" =>
               /\ arrow'.set
               /\ arrow'.latitude = lastClick'.pt /\ arrow'.longitude = lastClick'.pt]_vars
C13_Witness ==
  /\ mode = "pan" /\ center # DefaultCenter
  /\ arrow.set /\ lastClick.pt # 0 /\ lastClick.pt # arrow.latitude

\* C14: the drawn endpoint lies at a pixel distance from the origin equal to the arrow's
\* length, in the direction of its bearing (bearing 0 straight up, bearing 90 straight to
\* the right): the drawn length is the arrow's length value.
C14_EndpointAtLength ==
  overlay.drawn =>
    /\ overlay.endX = overlay.originX + SinDeg(overlay.arrow.bearingDeg) * overlay.arrow.lengthMeters
    /\ overlay.endY = overlay.originY - CosDeg(overlay.arrow.bearingDeg) * overlay.arrow.lengthMeters
\* what the code does draw: the bearing's direction, at a quarter of the smaller side
C14_EndpointAtQuarter ==
  overlay.drawn =>
    /\ overlay.endX = overlay.originX
                        + SinDeg(overlay.arrow.bearingDeg) * (Min(overlay.width, overlay.height) \div 4)
    /\ overlay.endY = overlay.originY
                        - CosDeg(overlay.arrow.bearingDeg) * (Min(overlay.width, overlay.height) \div 4)

\* C15: a history entry is never changed after it is added: whatever step is taken (map
\* click, slider, Tweak, a further generation), every entry of the list is in the list
\* after the step with all its fields as they were, request.arrow included, unless the
\* step is the removal of that entry (or a clear); the same holds of the persisted list.
C15_EntriesNeverChange ==
  [][/\ \A i \in 1 .. Len(items) :
          \/ \E j \in 1 .. Len(items') : items'[j] = items[i]
          \/ items' = removeUpdater(items[i].id, items)
          \/ items' = <<>>
     /\ \A i \in 1 .. Len(Loaded) :
          \/ \E j \in 1 .. Len(Loaded') : Loaded'[j] = Loaded[i]
          \/ Loaded' = removeUpdater(Loaded[i].id, Loaded)
          \/ Loaded' = <<>>]_vars
C15_Witness ==
  /\ lastGen = "added" /\ Len(items) >= 2 /\ arrow.set /\ arrowObj = 0
  /\ \E i \in 1 .. Len(items) :
       /\ items[i].request.arrow.latitude = arrow.latitude
       /\ items[i].request.arrow.bearingDeg # arrow.bearingDeg
       /\ items[i].request.arrow.lengthMeters # arrow.lengthMeters

\* ids of the entries of a list
IdsOf(l) == {l[i].id : i \in 1 .. Len(l)}

\* C16: history changes made while a generation request is in flight are not lost or
\* undone: when generate completes with a result, the list is the new entry followed by
\* the list as it stood just before, in memory and in storage, and no entry removed
\* since generate was invoked is in it.
C16_InFlightRemovalsKept ==
  /\ [][(gen = "awaiting" /\ gen' = "idle" /\ Responded /\ resp.status = 200) =>
          /\ items' = <<Head(items')>> \o items
          /\ Head(items').id = resp.id
          /\ Loaded' = JsonList(items')
          /\ IdsOf(items') \cap removedInFlight = {}]_vars
  /\ [](lastGen = "added" => (IdsOf(items) \cup IdsOf(Loaded)) \cap removedInFlight = {})
C16_Witness ==
  /\ lastGen = "added" /\ removedInFlight # {}
  /\ items # <<>> /\ Head(items).id >= 1
  /\ Loaded = JsonList(items)

\* C17: every invocation of generate that sets the in-progress flag resets it: the flag
\* is true only while generate is suspended in its fetch, each way generate ends
\* (result added, failed response, thrown error, early return on a missing map state)
\* leaves it false, and once the request completes the flag does become false.
C17_FlagReset ==
  /\ [](isGenerating => gen = "awaiting")
  /\ [](lastGen \in {"added", "failed", "nomap"} => ~isGenerating)
  /\ isGenerating ~> ~isGenerating
C17_Witness ==
  lastGen = "nomap" /\ ~isGenerating /\ ~mapReady /\ GenerateEnabled(arrow, isGenerating)

====
